---- MODULE Spec2Model ----
(***************************************************************************)
(* A model of the Ronin identifier splitter (spiral/ronin.py) and of the   *)
(* elementary splitters it builds on (spiral/simple_splitters.py).         *)
(*                                                                         *)
(* Strings are sequences of one-character strings.  Real numbers (scores)  *)
(* are fixed-point integers: a score x is held as floor(x * SCALE).        *)
(* Exponents and biases are held in units of 1/10000, the recognition      *)
(* bias in units of 1e-10.                                                 *)
(***************************************************************************)
EXTENDS Integers, Sequences, FiniteSets, TLC

\* ------------------------------------------------------------------------
\* Bounds of the model
\* ------------------------------------------------------------------------

\* Longest identifier drawn from the full alphabet.
MaxLen == 3

\* At most this many calls of init / split are followed in one behaviour.
MaxCalls == 3

\* Callers that call split concurrently on the shared instance.
NumCallers == 2

\* Longest run of letters put before and after a common term with numbers.
MaxAffix == 1

\* Length of the run of lower-case letters put before a suffix.
MaxStem == 4

\* Longest identifier of camel-case pieces given to the simple splitters.
MaxCamel == 6

\* Most entries of a frequency file given to the loaders.
MaxRows == 2

\* ------------------------------------------------------------------------
\* Characters and strings
\* ------------------------------------------------------------------------

LowerChars == {"e", "r", "s", "x"}

UpperChars == {"R", "X"}

DigitChars == {"6", "4"}

\* simple_splitters.py:76  _delimiter_chars = '$~_.:/@' ; one representative.
delimiter_chars == {"_"}

\* An ASCII character that is neither letter, digit, delimiter nor space.
OtherChars == {"-"}

Alphabet == LowerChars \cup UpperChars \cup DigitChars \cup delimiter_chars \cup OtherChars

\* str.lower() on one character.
ToLower(c) ==
    CASE c = "R" -> "r"
      [] c = "X" -> "x"
      [] OTHER -> c

\* str.upper() on one character (only letters that have an upper-case form
\* in the model alphabet change).
ToUpper(c) ==
    CASE c = "r" -> "R"
      [] c = "x" -> "X"
      [] OTHER -> c

IsLower(c) == c \in LowerChars

IsUpper(c) == c \in UpperChars

IsDigit(c) == c \in DigitChars

\* str.lower()
lower(s) == [i \in 1..Len(s) |-> ToLower(s[i])]

\* str.capitalize(): first character upper-cased, the rest lower-cased.
capitalize(s) == [i \in 1..Len(s) |-> IF i = 1 THEN ToUpper(s[i]) ELSE ToLower(s[i])]

\* s[i:] and s[:i] with Python's 0-based index i.
From(s, i) == SubSeq(s, i + 1, Len(s))

Upto(s, i) == SubSeq(s, 1, i)

endswith(s, suf) ==
    /\ Len(suf) <= Len(s)
    /\ SubSeq(s, Len(s) - Len(suf) + 1, Len(s)) = suf

RECURSIVE Concat(_)
\* ''.join(list)
Concat(list) == IF list = <<>> THEN <<>> ELSE Head(list) \o Concat(Tail(list))

\* All strings over a set of characters, of length at most n.
StringsUpTo(chars, n) == UNION {[1..k -> chars] : k \in 0..n}

\* ------------------------------------------------------------------------
\* spiral/constants.py (static sets; small samples over the model alphabet)
\* ------------------------------------------------------------------------

common_terms_with_numbers == { <<"x", "6", "4">>, <<"s", "r", "4">> }

common_suffix_numbers == { <<"6", "4">> }

special_computing_terms == { <<"r", "x">> }

prefixes == { <<"r", "e">> }

suffixes == { <<"e", "r">> }

\* ------------------------------------------------------------------------
\* spiral/simple_splitters.py
\* ------------------------------------------------------------------------

\* str.translate(identifier, _hard_splitter): every delimiter becomes ' '.
hard_splitter(identifier) ==
    [i \in 1..Len(identifier) |->
        IF identifier[i] \in delimiter_chars THEN " " ELSE identifier[i]]

\* The terms of 'exceptions' that match, ignoring case, at 1-based position i.
ExceptionsAt(s, i, exceptions) ==
    {e \in exceptions : /\ i + Len(e) - 1 <= Len(s)
                        /\ lower(SubSeq(s, i, i + Len(e) - 1)) = e}

RECURSIVE exceptions_sub(_, _, _)
\* re.sub(exceptions_re, r' \1 ', s), scanning from 1-based position i:
\* leftmost, non-overlapping, case-insensitive matches are wrapped in blanks.
exceptions_sub(s, i, exceptions) ==
    IF i > Len(s) THEN <<>>
    ELSE LET m == ExceptionsAt(s, i, exceptions) IN
         IF m # {}
         THEN LET e == CHOOSE x \in m : TRUE IN
              <<" ">> \o SubSeq(s, i, i + Len(e) - 1) \o <<" ">>
                      \o exceptions_sub(s, i + Len(e), exceptions)
         ELSE <<s[i]>> \o exceptions_sub(s, i + 1, exceptions)

RECURSIVE camel_case_sub_upper(_, _)
\* Mutant of camel_case_sub: a blank goes before every upper-case letter
\* that follows a letter.
camel_case_sub_upper(s, i) ==
    IF i > Len(s) THEN <<>>
    ELSE (IF i > 1 /\ (IsLower(s[i - 1]) \/ IsUpper(s[i - 1])) /\ IsUpper(s[i])
          THEN <<" ", s[i]>> ELSE <<s[i]>>) \o camel_case_sub_upper(s, i + 1)

RECURSIVE camel_case_sub(_, _)
\* re.sub(_camel_case, r' \1', s) with _camel_case = ((?<=[a-z])[A-Z]):
\* a blank goes before each upper-case letter that follows a lower-case one.
camel_case_sub(s, i) ==
    IF i > Len(s) THEN <<>>
    ELSE (IF i > 1 /\ IsLower(s[i - 1]) /\ IsUpper(s[i])
          THEN <<" ", s[i]>> ELSE <<s[i]>>) \o camel_case_sub(s, i + 1)

RECURSIVE whitespace_split(_, _)
\* str.split(): the maximal blank-free pieces of s, in order; 'cur' is the
\* piece being collected.
whitespace_split(s, cur) ==
    IF s = <<>> THEN (IF cur = <<>> THEN <<>> ELSE <<cur>>)
    ELSE IF Head(s) = " "
         THEN (IF cur = <<>> THEN <<>> ELSE <<cur>>) \o whitespace_split(Tail(s), <<>>)
         ELSE whitespace_split(Tail(s), Append(cur, Head(s)))

RECURSIVE re_split_digits(_, _, _)
\* re.split(r'(\d+)', s) when keep is TRUE, re.split(r'\d+', s) when FALSE:
\* the pieces between digit runs (empty pieces included) and, with the
\* capturing group, the digit runs themselves.
re_split_digits(s, cur, keep) ==
    IF s = <<>> THEN <<cur>>
    ELSE IF IsDigit(Head(s))
         THEN LET n == CHOOSE k \in 1..Len(s) :
                          /\ \A j \in 1..k : IsDigit(s[j])
                          /\ (k = Len(s) \/ ~IsDigit(s[k + 1]))
              IN <<cur>> \o (IF keep THEN <<SubSeq(s, 1, n)>> ELSE <<>>)
                         \o re_split_digits(SubSeq(s, n + 1, Len(s)), <<>>, keep)
         ELSE re_split_digits(Tail(s), Append(cur, Head(s)), keep)

RECURSIVE lstrip_digits(_)
\* t.lstrip(string.digits)
lstrip_digits(t) ==
    IF t # <<>> /\ IsDigit(Head(t)) THEN lstrip_digits(Tail(t)) ELSE t

RECURSIVE rstrip_digits(_)
\* t.rstrip(string.digits)
rstrip_digits(t) ==
    IF t # <<>> /\ IsDigit(t[Len(t)]) THEN rstrip_digits(SubSeq(t, 1, Len(t) - 1)) ELSE t

\* Mutant of filter_bool: the empty strings re.split yields are kept.
filter_bool_kept(list) == list

\* filter(bool, list): the non-empty strings of list.
filter_bool(list) == SelectSeq(list, LAMBDA t : t # <<>>)

\* Mutant of keep_whole: only the common suffix numbers keep a piece whole.
keep_whole_suffix_only(s, exceptions) ==
    /\ ~IsDigit(s[1])
    /\ \E suf \in common_suffix_numbers : endswith(s, suf)

\* The test of heuristic_split for keeping a piece whole.
keep_whole(s, exceptions) ==
    \/ lower(s) \in exceptions
    \/ /\ ~IsDigit(s[1])
       /\ \E suf \in common_suffix_numbers : endswith(s, suf)

\* What heuristic_split yields for one blank-separated piece s.
heuristic_piece(s, keep_numbers, exceptions) ==
    IF keep_whole(s, exceptions) THEN <<s>>
    ELSE IF keep_numbers
         THEN filter_bool(re_split_digits(s, <<>>, TRUE))
         ELSE filter_bool([k \in DOMAIN re_split_digits(s, <<>>, FALSE) |->
                             rstrip_digits(lstrip_digits(re_split_digits(s, <<>>, FALSE)[k]))])

RECURSIVE flatten(_)
\* utils.flatten: the strings of a list of lists, in order.
flatten(lists) == IF lists = <<>> THEN <<>> ELSE Head(lists) \o flatten(Tail(lists))

\* heuristic_split(identifier, keep_numbers) with the default exceptions.
heuristic_split(identifier, keep_numbers) ==
    LET exceptions  == common_terms_with_numbers
        preliminary == camel_case_sub(
                          exceptions_sub(hard_splitter(identifier), 1, exceptions), 1)
        pieces      == whitespace_split(preliminary, <<>>)
    IN flatten([k \in DOMAIN pieces |-> heuristic_piece(pieces[k], keep_numbers, exceptions)])

\* re.search(_two_capitals, identifier) with _two_capitals = [A-Z][A-Z].
two_capitals(identifier) ==
    \E i \in 1..(Len(identifier) - 1) : IsUpper(identifier[i]) /\ IsUpper(identifier[i + 1])

\* Mutant of pure_camelcase_split: 'safe' is ignored.
pure_camelcase_split_unsafe(identifier, safe) ==
    whitespace_split(camel_case_sub(identifier, 1), <<>>)

\* pure_camelcase_split(identifier, safe)
pure_camelcase_split(identifier, safe) ==
    IF safe /\ two_capitals(identifier) THEN <<identifier>>
    ELSE whitespace_split(camel_case_sub(identifier, 1), <<>>)

\* safe_simple_split(identifier)
safe_simple_split(identifier) ==
    LET parts == whitespace_split(hard_splitter(identifier), <<>>)
    IN flatten([k \in DOMAIN parts |-> pure_camelcase_split(parts[k], TRUE)])

\* simple_split(identifier)
simple_split(identifier) ==
    LET parts == whitespace_split(hard_splitter(identifier), <<>>)
    IN flatten([k \in DOMAIN parts |->
                   whitespace_split(camel_case_sub(parts[k], 1), <<>>)])

RECURSIVE digits_sub(_, _)
\* re.sub(r'(\d+)', r' \1 ', s), scanning from 1-based position i: each
\* maximal run of digits is wrapped in blanks.
digits_sub(s, i) ==
    IF i > Len(s) THEN <<>>
    ELSE IF IsDigit(s[i])
         THEN LET n == CHOOSE k \in i..Len(s) :
                          /\ \A j \in i..k : IsDigit(s[j])
                          /\ (k = Len(s) \/ ~IsDigit(s[k + 1]))
              IN <<" ">> \o SubSeq(s, i, n) \o <<" ">> \o digits_sub(s, n + 1)
         ELSE <<s[i]>> \o digits_sub(s, i + 1)

\* elementary_split(identifier)
elementary_split(identifier) ==
    whitespace_split(camel_case_sub(digits_sub(hard_splitter(identifier), 1), 1), <<>>)

\* ------------------------------------------------------------------------
\* Numbers
\* ------------------------------------------------------------------------

\* Scores are held as floor(score * SCALE).
SCALE == 1000

\* Exponents and camel_bias are held in units of 1/UNIT.
UNIT == 10000

\* recognition_bias is held in units of 1e-10; BIAS_DIV = 1e10 / SCALE.
BIAS_DIV == 10000000

\* The least integer >= a / b, for b > 0.
CeilDiv(a, b) == -((-a) \div b)

Max2(a, b) == IF a >= b THEN a ELSE b

\* The frequencies that occur in the tables of the model.
FreqValues == {20, 100, 350, 400, 500, 1000, 300000, 400000, 500000}

\* floor(math.pow(v, e / UNIT) * SCALE) for the frequencies and exponents of
\* the model (math.pow is a library function; its values are tabulated).
pow_table(v, e) ==
    CASE e = 1228 /\ v = 20 -> 1444
      [] e = 1228 /\ v = 100 -> 1760
      [] e = 1228 /\ v = 350 -> 2053
      [] e = 1228 /\ v = 400 -> 2087
      [] e = 1228 /\ v = 500 -> 2145
      [] e = 1228 /\ v = 1000 -> 2335
      [] e = 1228 /\ v = 300000 -> 4705
      [] e = 1228 /\ v = 400000 -> 4874
      [] e = 1228 /\ v = 500000 -> 5009
      [] e = 1250 /\ v = 20 -> 1454
      [] e = 1250 /\ v = 100 -> 1778
      [] e = 1250 /\ v = 350 -> 2079
      [] e = 1250 /\ v = 400 -> 2114
      [] e = 1250 /\ v = 500 -> 2174
      [] e = 1250 /\ v = 1000 -> 2371
      [] e = 1250 /\ v = 300000 -> 4837
      [] e = 1250 /\ v = 400000 -> 5014
      [] e = 1250 /\ v = 500000 -> 5156
      [] e = 1527 /\ v = 20 -> 1580
      [] e = 1527 /\ v = 100 -> 2020
      [] e = 1527 /\ v = 350 -> 2446
      [] e = 1527 /\ v = 400 -> 2496
      [] e = 1527 /\ v = 500 -> 2583
      [] e = 1527 /\ v = 1000 -> 2871
      [] e = 1527 /\ v = 300000 -> 6860
      [] e = 1527 /\ v = 400000 -> 7168
      [] e = 1527 /\ v = 500000 -> 7417
      [] e = 2500 /\ v = 20 -> 2114
      [] e = 2500 /\ v = 100 -> 3162
      [] e = 2500 /\ v = 350 -> 4325
      [] e = 2500 /\ v = 400 -> 4472
      [] e = 2500 /\ v = 500 -> 4728
      [] e = 2500 /\ v = 1000 -> 5623
      [] e = 2500 /\ v = 300000 -> 23403
      [] e = 2500 /\ v = 400000 -> 25148
      [] e = 2500 /\ v = 500000 -> 26591

\* math.pow(score_value, exponent) of _rescale, in fixed point.
pow_score(v, e) ==
    IF e = 0 THEN SCALE
    ELSE IF v = 0 THEN 0
    ELSE pow_table(v, e)

\* floor(math.pow(n, 1.2165) * SCALE), n a number of tokens.
pow_len_table(n) ==
    CASE n = 1 -> 1000
      [] n = 2 -> 2323
      [] n = 3 -> 3805
      [] n = 4 -> 5400
      [] n = 5 -> 7084
      [] n = 6 -> 8843
      [] n = 7 -> 10667
      [] n = 8 -> 12548
      [] n = 9 -> 14482

\* math.pow(len(alt_split), alt_exponent) in fixed point, for the
\* alt_exponent values of the model: 0, 1 and the default 1.2165.
pow_len(n, e) ==
    IF e = 0 THEN SCALE
    ELSE IF e = UNIT THEN n * SCALE
    ELSE pow_len_table(n)

\* ------------------------------------------------------------------------
\* Data the splitter loads: frequency tables and the dictionary
\* ------------------------------------------------------------------------

\* A dict with no entries.
EmptyTable == [k \in {} |-> 0]

\* The table pickled in data/frequencies.pklz (a sample of it).
DefaultTable ==
    <<"r", "e">> :> 300000 @@ <<"s", "e", "e">> :> 1000 @@ <<"e", "r", "r">> :> 500
    @@ <<"s">> :> 400000 @@ <<"r", "e", "x">> :> 400 @@ <<"e">> :> 350 @@ <<"x">> :> 20

\* A table a caller supplies, with keys that differ in case only, with a
\* key of digits, and with a one-letter key of frequency 100.
UserTable ==
    <<"r", "x">> :> 20 @@ <<"R", "X">> :> 1000 @@ <<"R", "x">> :> 400
    @@ <<"s", "e", "e">> :> 500000 @@ <<"R", "e">> :> 350 @@ <<"s">> :> 300000
    @@ <<"6", "4">> :> 300000 @@ <<"x">> :> 100

\* English words of the NLTK corpora (a sample of them).
nltk_words == { <<"e", "x">>, <<"s", "e", "e">>, <<"e", "r", "r">> }

\* The set pickled in data/dictionary.pklz: the NLTK words and the special
\* computing terms (docstring of _DICTIONARY_PICKLE).
PickledDictionary == nltk_words \cup special_computing_terms

\* What init finds on disk: the frequency pickle and the dictionary sources.
FreqArtifacts == {"missing", "corrupt", "ok"}

DictArtifacts == {"pickle", "nltk", "unavailable"}

\* frequencies_from_pickle(filename), threshold and filter_words left None:
\* any exception while reading or unpickling is swallowed and {} returned.
frequencies_from_pickle(artifact) ==
    IF artifact = "ok" THEN DefaultTable ELSE EmptyTable

\* The dictionary built by assigning the rows <<word, frequency>> in order.
dict_of(rows) ==
    [w \in {rows[k][1] : k \in DOMAIN rows} |->
        rows[CHOOSE k \in DOMAIN rows :
                /\ rows[k][1] = w
                /\ \A j \in DOMAIN rows : rows[j][1] = w => j <= k][2]]

\* frequencies_from_csv_file on a readable file with the given rows.  A
\* threshold of 0 stands for None and for 0, an empty filter_words for None
\* and for the empty set: the code tests both for truth only.
frequencies_from_csv_file(rows, threshold, filter_words) ==
    dict_of(SelectSeq(rows, LAMBDA row :
                /\ ~(threshold # 0 /\ row[2] < threshold)
                /\ ~(filter_words # {} /\ row[1] \in filter_words)))

\* Line 56 of frequencies_from_pickle, {k : v for k, v in data if v <
\* threshold}: the loop is over the keys of data, each key is unpacked into
\* k and v, which raises ValueError unless it has two characters, and then
\* a character is compared with the number, which raises TypeError.
pickle_threshold(rows, threshold) ==
    IF threshold = 0 THEN [raised |-> FALSE, rows |-> rows]
    ELSE [raised |-> rows # <<>>, rows |-> <<>>]

\* Line 58, {k : v for k, v in data if k not in filter_words}: each key of
\* two characters gives an entry from its first character to its second.
pickle_filter_words(rows, filter_words) ==
    IF filter_words = {} THEN [raised |-> FALSE, rows |-> rows]
    ELSE IF \E k \in DOMAIN rows : Len(rows[k][1]) # 2
         THEN [raised |-> TRUE, rows |-> <<>>]
         ELSE [raised |-> FALSE,
               rows |-> SelectSeq([k \in DOMAIN rows |->
                                      << <<rows[k][1][1]>>, <<rows[k][1][2]>> >>],
                                  LAMBDA row : row[1] \notin filter_words)]

\* Lines 55-61 of frequencies_from_pickle on a file that unpickles to the
\* dictionary with the given rows: any exception is swallowed and {} returned.
frequencies_from_pickle_data(rows, threshold, filter_words) ==
    LET first  == pickle_threshold(rows, threshold)
        second == pickle_filter_words(first.rows, filter_words)
    IN IF first.raised \/ second.raised THEN EmptyTable ELSE dict_of(second.rows)

\* ------------------------------------------------------------------------
\* The Ronin instance
\* ------------------------------------------------------------------------

\* The numeric arguments of init.  Exponents and camel_bias in 1/UNIT,
\* recognition_bias in 1e-10.
DefaultParams ==
    [low_freq_cutoff |-> 340, length_cutoff |-> 2, short_min_freq |-> 286540,
     normal_exponent |-> 1527, dict_word_exponent |-> 1228, camel_bias |-> 86319,
     recognition_bias |-> 3635, alt_exponent |-> 12165]

\* Other values inside the documented ranges.
TunedParams ==
    [low_freq_cutoff |-> 10, length_cutoff |-> 1, short_min_freq |-> 100,
     normal_exponent |-> 2500, dict_word_exponent |-> 1250, camel_bias |-> 20000,
     recognition_bias |-> 3635, alt_exponent |-> 10000]

\* Values outside the documented ranges: a negative cutoff, exponents not
\* in (0,1), a camel_bias that is not positive, an alt_exponent below 1.
OutOfRangeParams ==
    [low_freq_cutoff |-> -1, length_cutoff |-> 2, short_min_freq |-> 286540,
     normal_exponent |-> 0, dict_word_exponent |-> 0, camel_bias |-> -10000,
     recognition_bias |-> 3635, alt_exponent |-> 0]

ParamSets == {DefaultParams, TunedParams, OutOfRangeParams}

\* The documented ranges of the numeric parameters (spec, section 4.2).
InRange(p) ==
    /\ p.low_freq_cutoff >= 0
    /\ p.length_cutoff >= 0
    /\ p.short_min_freq >= 0
    /\ p.normal_exponent > 0 /\ p.normal_exponent < UNIT
    /\ p.dict_word_exponent > 0 /\ p.dict_word_exponent < UNIT
    /\ p.camel_bias > 0
    /\ p.recognition_bias > 0
    /\ p.alt_exponent >= UNIT

\* The class attributes of Ronin: the state of a fresh instance.  A field
\* that is None holds a placeholder and its *_set flag is FALSE; the
\* numeric parameters that are None until init runs share params_set.
NewRonin ==
    [dictionary_set |-> FALSE, dictionary |-> {},
     stemmer |-> FALSE,
     frequencies_set |-> FALSE, frequencies |-> EmptyTable,
     params_set |-> FALSE,
     highest_freq |-> 0, length_cutoff |-> 0, short_min_freq |-> 0,
     low_freq_cutoff |-> 0, normal_exponent |-> 0, dict_word_exponent |-> 0,
     camel_bias |-> 0,
     recognition_bias |-> 3635, biased_threshold |-> 0, alt_exponent |-> UNIT,
     exact_case |-> FALSE,
     score |-> "unset"]

\* Python's truth test of a dict that may be None: 'not self._frequencies'.
NoFrequencies(self) == ~self.frequencies_set \/ DOMAIN self.frequencies = {}

\* 'not self._dictionary'
NoDictionary(self) == ~self.dictionary_set \/ self.dictionary = {}

\* Every attribute split reads has been set by a completed init.
Initialized(self) ==
    /\ ~NoFrequencies(self)
    /\ self.params_set
    /\ self.dictionary_set
    /\ self.stemmer
    /\ self.score # "unset"

RECURSIVE lowercase_keys_min(_, _, _)
\* Mutant of lowercase_keys: min() where the code calls max().
lowercase_keys_min(frequencies, todo, newdict) ==
    IF todo = {} THEN newdict
    ELSE LET key    == CHOOSE k \in todo : TRUE
             value  == frequencies[key]
             lc_key == lower(key)
         IN lowercase_keys_min(frequencies, todo \ {key},
               IF lc_key \in DOMAIN newdict
               THEN [newdict EXCEPT ![lc_key] =
                        IF value < newdict[lc_key] THEN value ELSE newdict[lc_key]]
               ELSE (lc_key :> value) @@ newdict)

RECURSIVE lowercase_keys(_, _, _)
\* The loop of init over frequencies.items() that keeps, for each
\* lower-cased key, the largest value seen; 'todo' are the keys not yet
\* visited.
lowercase_keys(frequencies, todo, newdict) ==
    IF todo = {} THEN newdict
    ELSE LET key    == CHOOSE k \in todo : TRUE
             value  == frequencies[key]
             lc_key == lower(key)
         IN lowercase_keys(frequencies, todo \ {key},
               IF lc_key \in DOMAIN newdict
               THEN [newdict EXCEPT ![lc_key] = Max2(value, newdict[lc_key])]
               ELSE (lc_key :> value) @@ newdict)

\* max(self._frequencies.values()) of a non-empty table.
max_value(table) ==
    CHOOSE m \in {table[k] : k \in DOMAIN table} :
        \A k \in DOMAIN table : table[k] <= m

\* Mutant of init_frequencies: the os.path.exists test is left out, so a
\* missing pickle is read like an unreadable one.
init_frequencies_unchecked(self, frequencies, exact_case, freq_artifact) ==
    IF ~NoFrequencies(self) THEN [status |-> "ok", self |-> self]
    ELSE LET table == IF ~frequencies.given \/ DOMAIN frequencies.table = {}
                      THEN frequencies_from_pickle(freq_artifact)
                      ELSE frequencies.table
         IN [status |-> "ok",
             self |-> [self EXCEPT !.frequencies_set = TRUE,
                          !.frequencies =
                              IF exact_case THEN table
                              ELSE lowercase_keys(table, DOMAIN table, EmptyTable)]]

\* init, first part: load and store the frequency table.
\* 'frequencies' is [given |-> BOOLEAN, table |-> dict]; given = FALSE is None.
init_frequencies(self, frequencies, exact_case, freq_artifact) ==
    IF ~NoFrequencies(self) THEN [status |-> "ok", self |-> self]
    ELSE IF (~frequencies.given \/ DOMAIN frequencies.table = {})
            /\ freq_artifact = "missing"
         THEN [status |-> "ValueError", self |-> self]
         ELSE LET table == IF ~frequencies.given \/ DOMAIN frequencies.table = {}
                           THEN frequencies_from_pickle(freq_artifact)
                           ELSE frequencies.table
              IN [status |-> "ok",
                  self |-> [self EXCEPT !.frequencies_set = TRUE,
                               !.frequencies =
                                   IF exact_case THEN table
                                   ELSE lowercase_keys(table, DOMAIN table, EmptyTable)]]

\* Lines 384-394 of init: the assignments of the case flag, the highest
\* frequency and the numeric parameters.
store_params(self, exact_case, p, highest_freq) ==
    [self EXCEPT
        !.exact_case = exact_case,
        !.highest_freq = highest_freq,
        !.recognition_bias = p.recognition_bias,
        !.biased_threshold = (p.recognition_bias * highest_freq) \div BIAS_DIV,
        !.low_freq_cutoff = p.low_freq_cutoff,
        !.length_cutoff = p.length_cutoff,
        !.short_min_freq = p.short_min_freq,
        !.normal_exponent = p.normal_exponent,
        !.dict_word_exponent = p.dict_word_exponent,
        !.camel_bias = p.camel_bias,
        !.alt_exponent = p.alt_exponent,
        !.params_set = TRUE]

\* Mutant of init_params: max() is given a default, so that an empty table
\* no longer raises.
init_params_default(self, exact_case, p) ==
    [status |-> "ok",
     self |-> store_params(self, exact_case, p,
                 IF DOMAIN self.frequencies = {} THEN 0 ELSE max_value(self.frequencies))]

\* Mutant of init_params: a parameter outside its documented range raises.
init_params_checked(self, exact_case, p) ==
    IF DOMAIN self.frequencies = {} \/ ~InRange(p)
    THEN [status |-> "ValueError", self |-> [self EXCEPT !.exact_case = exact_case]]
    ELSE [status |-> "ok",
          self |-> store_params(self, exact_case, p, max_value(self.frequencies))]

\* init, second part: the case flag, the highest frequency and the numeric
\* parameters.  max() of an empty table raises after _exact_case is set.
init_params(self, exact_case, p) ==
    IF DOMAIN self.frequencies = {}
    THEN [status |-> "ValueError", self |-> [self EXCEPT !.exact_case = exact_case]]
    ELSE [status |-> "ok",
          self |-> store_params(self, exact_case, p, max_value(self.frequencies))]

\* init, third part: load the dictionary unless one is loaded.
init_dictionary(self, dict_artifact) ==
    IF ~NoDictionary(self) THEN [status |-> "ok", self |-> self]
    ELSE IF dict_artifact = "pickle"
         THEN [status |-> "ok",
               self |-> [self EXCEPT !.dictionary_set = TRUE,
                                     !.dictionary = PickledDictionary]]
    ELSE IF dict_artifact = "nltk"
         THEN [status |-> "ok",
               self |-> [self EXCEPT !.dictionary_set = TRUE,
                                     !.dictionary = nltk_words \cup special_computing_terms]]
    ELSE [status |-> "LoadError", self |-> self]

\* init, last part: the stemmer and the score function chosen by exact_case.
init_score(self, exact_case) ==
    [self EXCEPT !.stemmer = TRUE,
                 !.score = IF exact_case THEN "exact_case" ELSE "lowercase"]

\* Ronin.init: the parts in order; an exception ends it where it is raised.
init(self, frequencies, exact_case, p, freq_artifact, dict_artifact) ==
    LET a == init_frequencies(self, frequencies, exact_case, freq_artifact) IN
    IF a.status # "ok" THEN a
    ELSE LET b == init_params(a.self, exact_case, p) IN
    IF b.status # "ok" THEN b
    ELSE LET c == init_dictionary(b.self, dict_artifact) IN
    IF c.status # "ok" THEN c
    ELSE [status |-> "ok", self |-> init_score(c.self, exact_case)]

\* ------------------------------------------------------------------------
\* Recognition: stemmer, dictionary, special cases
\* ------------------------------------------------------------------------

IsVowel(c) == c \in {"a", "e", "i", "o", "u", "y"}

\* The 1-based position after the first non-vowel that follows a vowel, at
\* or after position 'from' of w; Len(w) + 1 when there is none.  This is
\* where the region R1 (from = 1) or R2 (from = start of R1) begins.
RegionStart(w, from) ==
    LET hits == {i \in (from + 1)..Len(w) : ~IsVowel(w[i]) /\ IsVowel(w[i - 1])}
    IN IF hits = {} THEN Len(w) + 1
       ELSE 1 + (CHOOSE i \in hits : \A j \in hits : i <= j)

\* The regions <<R1, R2>> of the stemmer for the word w, given as the
\* 1-based positions where they begin.
regions_from(w, r1) ==
    <<r1, IF r1 > Len(w) THEN Len(w) + 1 ELSE RegionStart(w, r1)>>

regions(w) == regions_from(w, RegionStart(w, 1))

\* Step 4 of the stemmer: the suffix 'er' is deleted when it lies in R2.
step4(w, r) ==
    IF endswith(w, <<"e", "r">>) /\ r[2] <= Len(w) - 1
    THEN SubSeq(w, 1, Len(w) - 2) ELSE w

\* Step 5 of the stemmer: a final 'e' is deleted when it lies in R2, or in
\* R1 and is not preceded by a short syllable.
step5(w4, r) ==
    LET m == Len(w4)
    IN IF m >= 1 /\ w4[m] = "e" /\ r[2] <= m THEN SubSeq(w4, 1, m - 1)
       ELSE IF m >= 1 /\ w4[m] = "e" /\ r[1] <= m
            THEN IF m >= 4 /\ (\/ IsVowel(w4[m - 1])
                               \/ w4[m - 1] \in {"w", "x", "Y"}
                               \/ ~IsVowel(w4[m - 2])
                               \/ IsVowel(w4[m - 3]))
                 THEN SubSeq(w4, 1, m - 1) ELSE w4
       ELSE w4

\* The stemmer on the lower-case word w with regions r; words of one or
\* two letters are returned as they are.
snowball_steps(w, r) ==
    IF Len(w) <= 2 THEN w ELSE step5(step4(w, r), r)

\* SnowballStemmer('english').stem(token), for words over the model
\* alphabet that do not end in 's': of the algorithm's steps only step 4
\* (suffix 'er' inside R2) and step 5 (a final 'e') can apply to them.
snowball_stem(token) == snowball_steps(lower(token), regions(lower(token)))

\* Ronin._stem: a final 's' is cut off without consulting the stemmer.
stem(token) ==
    IF Len(token) > 1 /\ token[Len(token)] = "s"
    THEN SubSeq(token, 1, Len(token) - 1)
    ELSE snowball_stem(token)

\* Ronin._special_case (the token is compared as given).
special_case(token) ==
    \/ token \in common_terms_with_numbers
    \/ token \in special_computing_terms
    \/ stem(token) \in special_computing_terms

\* Ronin._in_dictionary
in_dictionary(self, word) ==
    IF Len(word) <= 1 THEN FALSE
    ELSE word \in self.dictionary \/ stem(word) \in self.dictionary

\* Ronin._recognized
recognized(self, token) ==
    LET tlower == lower(token)
    IN special_case(tlower) \/ in_dictionary(self, tlower)

\* Ronin._is_prefix
is_prefix(s) == lower(s) \in prefixes

\* Ronin._is_suffix
is_suffix(s) == lower(s) \in suffixes

\* ------------------------------------------------------------------------
\* Scores
\* ------------------------------------------------------------------------

\* Mutant of score_exact_case: the lower-case probe comes before the
\* capitalized one.
score_exact_case_lower_first(self, token) ==
    LET lc_token  == lower(token)
        cap_token == capitalize(token)
    IN IF lc_token \in common_terms_with_numbers THEN self.highest_freq
       ELSE IF token \in DOMAIN self.frequencies THEN self.frequencies[token]
       ELSE IF lc_token \in DOMAIN self.frequencies THEN self.frequencies[lc_token]
       ELSE IF cap_token \in DOMAIN self.frequencies THEN self.frequencies[cap_token]
       ELSE 0

\* score_function built by init when exact_case is true.
score_exact_case(self, token) ==
    LET lc_token  == lower(token)
        cap_token == capitalize(token)
    IN IF lc_token \in common_terms_with_numbers THEN self.highest_freq
       ELSE IF token \in DOMAIN self.frequencies THEN self.frequencies[token]
       ELSE IF cap_token \in DOMAIN self.frequencies THEN self.frequencies[cap_token]
       ELSE IF lc_token \in DOMAIN self.frequencies THEN self.frequencies[lc_token]
       ELSE 0

\* score_function built by init when exact_case is false.
score_lowercase(self, token) ==
    LET lc_token == lower(token)
    IN IF lc_token \in common_terms_with_numbers THEN self.highest_freq
       ELSE IF lc_token \in DOMAIN self.frequencies THEN self.frequencies[lc_token]
       ELSE 0

\* self._score(token): the function the last completed init stored.
score(self, token) ==
    IF self.score = "exact_case" THEN score_exact_case(self, token)
    ELSE score_lowercase(self, token)

\* Ronin._rescale, in fixed point.
rescale(self, token, score_value) ==
    IF recognized(self, token)
    THEN pow_score(score_value, self.dict_word_exponent)
    ELSE pow_score(score_value, self.normal_exponent)

\* Mutant of adjust: a special case gets no exemption from the rule for
\* short tokens.
adjust_no_exemption(self, token, score_value) ==
    IF Len(token) = 0 THEN 0
    ELSE IF Len(token) <= self.length_cutoff /\ score_value <= self.short_min_freq
         THEN 0
    ELSE IF score_value <= self.low_freq_cutoff THEN 0
    ELSE rescale(self, token, score_value)

\* The body of _adjusted_score once score_value = self._score(token).
adjust(self, token, score_value) ==
    IF Len(token) = 0 THEN 0
    ELSE IF /\ Len(token) <= self.length_cutoff
            /\ ~special_case(token)
            /\ score_value <= self.short_min_freq
         THEN 0
    ELSE IF score_value <= self.low_freq_cutoff THEN 0
    ELSE rescale(self, token, score_value)

\* Ronin._adjusted_score, in fixed point.
adjusted_score(self, token) == adjust(self, token, score(self, token))

\* ------------------------------------------------------------------------
\* Ronin._same_case_split
\* ------------------------------------------------------------------------

\* Python's order on the tuples (score, split) kept in 'splits'.  Two
\* candidates of one scan start with different prefixes of s, so equal
\* scores are ordered by the first tokens, the shorter prefix first.
TupleLess(a, b) ==
    \/ a[1] < b[1]
    \/ a[1] = b[1] /\ Len(a[2][1]) < Len(b[2][1])

\* bisect.insort(splits, item): insert after the last entry not above item.
insort(splits, item) ==
    LET k == Cardinality({j \in DOMAIN splits : ~TupleLess(item, splits[j])})
    IN SubSeq(splits, 1, k) \o <<item>> \o SubSeq(splits, k + 1, Len(splits))

\* What one pass of the while loop of _same_case_split does with the
\* split (left, right) that is not ruled out as a prefix or suffix: the
\* tuple <<score, split, max_score, primary>> of the entry it inserts in
\* 'splits' (score -1 and an empty split: none), of max_score after the
\* pass, and of whether the pass assigns the entry's split to new_split.
\* 'sub' is the result of the recursive call on right.
scan_case(self, threshold, max_score, left, right, score_l, score_r, recognized_l, recognized_r, special_r, sub) ==
    IF score_l > threshold /\ score_r > threshold
    THEN IF score_l + score_r > max_score
         THEN <<score_l + score_r, <<left, right>>, score_l + score_r, TRUE>>
         ELSE <<-1, <<>>, max_score, FALSE>>
    ELSE IF score_l > threshold
    THEN IF Max2(score_l, score_r) > self.biased_threshold /\ recognized_r
         THEN <<Max2(score_l, score_r), <<left, right>>, max_score, FALSE>>
         ELSE IF sub[2][1] # right
         THEN <<sub[1] \div (1 + Len(sub[2])), <<left>> \o sub[2], max_score, TRUE>>
         ELSE IF special_r
         THEN <<Max2(score_l, score_r), <<left, right>>, Max2(score_l, score_r), FALSE>>
         ELSE <<-1, <<>>, max_score, FALSE>>
    ELSE IF score_r > threshold /\ (\/ recognized_l
                                    \/ Len(left) <= self.length_cutoff
                                    \/ special_r)
    THEN IF Max2(score_l, score_r) > self.biased_threshold
         THEN <<score_r \div Len(left), <<left, right>>, max_score, FALSE>>
         ELSE IF recognized_r
         THEN <<score_r, <<left, right>>, max_score, FALSE>>
         ELSE <<-1, <<>>, max_score, FALSE>>
    ELSE <<-1, <<>>, max_score, FALSE>>

\* The loop's variables after a pass whose outcome is 'pass'.
scan_update(st, pass) ==
    [max_score |-> pass[3],
     new_split |-> IF pass[4] THEN pass[2] ELSE st.new_split,
     splits |-> IF pass[2] = <<>> THEN st.splits
                ELSE insort(st.splits, <<pass[1], pass[2]>>)]

\* A pass of the while loop of _same_case_split that is not skipped: the
\* scores of left and right and the case they fall in.
scan_pass(self, s, threshold, left, right, st, sub) ==
    scan_update(st,
        scan_case(self, threshold, st.max_score, left, right,
                  adjusted_score(self, left), adjusted_score(self, right),
                  recognized(self, left), recognized(self, right),
                  special_case(right), sub))

\* Mutant of scan_step: no split point is skipped for a prefix or a suffix.
scan_step_unskipped(self, s, threshold, left, right, st, sub) ==
    scan_pass(self, s, threshold, left, right, st, sub)

\* One pass of the while loop of _same_case_split, for the split
\* (left, right) of s: the loop's variables max_score and splits after it,
\* 'st' being their values before it.
scan_step(self, s, threshold, left, right, st, sub) ==
    IF is_prefix(left) \/ (Len(s) > 5 /\ is_suffix(right)) THEN st
    ELSE scan_pass(self, s, threshold, left, right, st, sub)

\* Mutant of scan_result: a split assigned to new_split during the scan is
\* the result, and 'splits' is consulted only when there is none.
scan_result_primary(self, s, score_ns, st) ==
    IF st.new_split # <<>> THEN <<st.max_score, st.new_split>>
    ELSE IF st.splits # <<>>
    THEN IF st.splits[Len(st.splits)][1] * SCALE
              >= score_ns * pow_len(Len(st.splits[Len(st.splits)][2]), self.alt_exponent)
         THEN st.splits[Len(st.splits)]
         ELSE <<score_ns, <<s>>>>
    ELSE <<st.max_score, <<s>>>>

\* The end of _same_case_split: the best entry of 'splits' if there is one
\* and it beats the score of s unsplit.
scan_result(self, s, score_ns, st) ==
    IF st.splits # <<>>
    THEN IF st.splits[Len(st.splits)][1] * SCALE
              >= score_ns * pow_len(Len(st.splits[Len(st.splits)][2]), self.alt_exponent)
         THEN st.splits[Len(st.splits)]
         ELSE <<score_ns, <<s>>>>
    ELSE <<st.max_score, <<s>>>>

\* Mutant of recursive_arg: a string with upper-case letters is passed
\* whole, lowercased, to the recursive call.
recursive_arg_lowered(s, i) == IF lower(s) # s THEN lower(s) ELSE From(s, i)

\* The string the recursive call of _same_case_split is made on at the
\* split point i of s: right = s[i:].
recursive_arg(s, i) == From(s, i)

\* Mutant of threshold: the threshold has a positive floor (the least
\* positive score of the fixed-point scale).
threshold_floored(self, s, score_ns) ==
    Max2(Max2(adjusted_score(self, s), score_ns), 1)

\* threshold = max(self._adjusted_score(s), score_ns) of _same_case_split.
threshold(self, s, score_ns) == Max2(adjusted_score(self, s), score_ns)

RECURSIVE same_case_split(_, _, _)
\* Ronin._same_case_split, the scan over the split points i = 1 .. len(s)-1:
\* the loop's variables max_score, new_split (<<>> for None) and splits
\* after the last pass.
scan_final(self, s, score_ns) ==
    LET \* the loop's variables after the passes for i = 1 .. k
        st[k \in 0..Max2(Len(s) - 1, 0)] ==
            IF k = 0 THEN [max_score |-> -SCALE, new_split |-> <<>>, splits |-> <<>>]
            ELSE scan_step(self, s, threshold(self, s, score_ns),
                           Upto(s, k), From(s, k), st[k - 1],
                           same_case_split(self, recursive_arg(s, k), score_ns))
    IN st[Max2(Len(s) - 1, 0)]

\* Ronin._same_case_split for a string that is not recognized: the scan and
\* the choice of the result.
same_case_scan(self, s, score_ns) ==
    scan_result(self, s, score_ns, scan_final(self, s, score_ns))

\* The pass for the split point i of s makes the recursive call: the split
\* point is not skipped, only the left part scores above the threshold, and
\* the right part is not preferred as recognized (case 3).
recursion_made(self, s, score_ns, i) ==
    /\ ~(is_prefix(Upto(s, i)) \/ (Len(s) > 5 /\ is_suffix(From(s, i))))
    /\ adjusted_score(self, Upto(s, i)) > threshold(self, s, score_ns)
    /\ ~(adjusted_score(self, From(s, i)) > threshold(self, s, score_ns))
    /\ ~(/\ Max2(adjusted_score(self, Upto(s, i)), adjusted_score(self, From(s, i)))
              > self.biased_threshold
         /\ recognized(self, From(s, i)))

RECURSIVE nesting_depth(_, _, _)
\* The number of invocations of _same_case_split that are active at once
\* at most, the invocation on s with score_ns being the outermost.
nesting_depth(self, s, score_ns) ==
    IF recognized(self, s) THEN 1
    ELSE LET inner == {nesting_depth(self, recursive_arg(s, i), score_ns) :
                          i \in {j \in 1..(Len(s) - 1) : recursion_made(self, s, score_ns, j)}}
         IN IF inner = {} THEN 1
            ELSE 1 + CHOOSE d \in inner : \A e \in inner : e <= d

\* Mutant of same_case_split: a recognized string is scanned for split
\* points like any other.
same_case_split_unrecognized(self, s, score_ns) ==
    same_case_scan(self, s, score_ns)

\* Ronin._same_case_split(s, score_ns): the tuple (score, split).
same_case_split(self, s, score_ns) ==
    IF recognized(self, s) THEN <<score_ns, <<s>>>>
    ELSE same_case_scan(self, s, score_ns)

\* ------------------------------------------------------------------------
\* Ronin.split
\* ------------------------------------------------------------------------

\* Mutant of transition: the pattern is [a-z][A-Z], and the index that of
\* the upper-case letter.
transition_lower_upper(s) ==
    LET hits == {k \in 1..(Len(s) - 1) : IsLower(s[k]) /\ IsUpper(s[k + 1])}
    IN IF hits = {} THEN -1
       ELSE CHOOSE k \in hits : \A j \in hits : k <= j

\* re.search(r'[A-Z][a-z]', s): the 0-based start of the first upper-case
\* letter followed by a lower-case one, -1 when there is none.
transition(s) ==
    LET hits == {k \in 1..(Len(s) - 1) : IsUpper(s[k]) /\ IsLower(s[k + 1])}
    IN IF hits = {} THEN -1
       ELSE (CHOOSE k \in hits : \A j \in hits : k <= j) - 1

\* Mutant of camel_cut: the cut after the capital takes the left part one
\* character short (s[0:i] for s[0:i+1]).
camel_cut_short(self, s, i) ==
    IF score(self, IF i > 0 THEN From(s, i) ELSE s) * SCALE
         >= CeilDiv(adjusted_score(self, From(s, i + 1)) * self.camel_bias, UNIT)
    THEN (IF i > 0 THEN <<Upto(s, i), From(s, i)>> ELSE <<s>>)
    ELSE <<Upto(s, i), From(s, i + 1)>>

\* Mutant of camel_cut: the capital starts the second token only when the
\* camel score is strictly greater.
camel_cut_strict(self, s, i) ==
    IF score(self, IF i > 0 THEN From(s, i) ELSE s) * SCALE
         > CeilDiv(adjusted_score(self, From(s, i + 1)) * self.camel_bias, UNIT)
    THEN (IF i > 0 THEN <<Upto(s, i), From(s, i)>> ELSE <<s>>)
    ELSE <<Upto(s, i + 1), From(s, i + 1)>>

\* The choice split makes at the transition at index i >= 0 of s: the
\* capital starts the second token unless the rest after it scores better.
camel_cut(self, s, i) ==
    IF score(self, IF i > 0 THEN From(s, i) ELSE s) * SCALE
         >= CeilDiv(adjusted_score(self, From(s, i + 1)) * self.camel_bias, UNIT)
    THEN (IF i > 0 THEN <<Upto(s, i), From(s, i)>> ELSE <<s>>)
    ELSE <<Upto(s, i + 1), From(s, i + 1)>>

\* The body of the first loop of split for one token s of the initial list.
camel_parts(self, s) ==
    IF recognized(self, s) THEN <<s>>
    ELSE IF transition(s) < 0 THEN <<s>>
    ELSE camel_cut(self, s, transition(s))

\* The first loop of split over the initial list.
camel_split(self, initial_list) ==
    flatten([k \in DOMAIN initial_list |-> camel_parts(self, initial_list[k])])

\* The second loop of split over the tokens the first loop produced.
same_case_results(self, splits) ==
    flatten([k \in DOMAIN splits |->
               same_case_split(self, splits[k], adjusted_score(self, splits[k]))[2]])

\* Ronin.split on an instance whose init has completed.
split(self, identifier, keep_numbers) ==
    same_case_results(self, camel_split(self, heuristic_split(identifier, keep_numbers)))

RECURSIVE missing_attribute(_, _)
\* The exception split raises on an instance whose init did not complete
\* (table stored, but dictionary, stemmer or score function still unset):
\* the first access, in the order split makes them on the tokens of the
\* initial list, to an attribute that is None or absent.
missing_attribute(self, pieces) ==
    IF pieces = <<>> THEN "AttributeError"
    ELSE LET tlower == lower(Head(pieces))
             ends_s == Len(tlower) > 1 /\ tlower[Len(tlower)] = "s"
         IN IF tlower \in common_terms_with_numbers \/ tlower \in special_computing_terms
            THEN missing_attribute(self, Tail(pieces))
            ELSE IF ~self.stemmer /\ ~ends_s THEN "AttributeError"
            ELSE IF stem(tlower) \in special_computing_terms
            THEN missing_attribute(self, Tail(pieces))
            ELSE IF Len(tlower) > 1 /\ ~self.dictionary_set THEN "TypeError"
            ELSE IF Len(tlower) > 1 /\ in_dictionary(self, tlower)
            THEN missing_attribute(self, Tail(pieces))
            ELSE IF transition(Head(pieces)) >= 0 THEN "AttributeError"
            ELSE missing_attribute(self, Tail(pieces))

\* Ronin.split after its test of self._frequencies: the list returned, or
\* the exception raised when the instance is only partly initialized.
split_body(self, identifier, keep_numbers) ==
    IF Initialized(self)
    THEN [status |-> "ok", value |-> split(self, identifier, keep_numbers)]
    ELSE IF heuristic_split(identifier, keep_numbers) = <<>>
    THEN [status |-> "ok", value |-> <<>>]
    ELSE [status |-> missing_attribute(self, heuristic_split(identifier, keep_numbers)),
          value |-> <<>>]

\* The values of init's 'frequencies' argument: None, {} and a table.
NoneArg == [given |-> FALSE, table |-> EmptyTable]

EmptyArg == [given |-> TRUE, table |-> EmptyTable]

UserArg == [given |-> TRUE, table |-> UserTable]

FreqArgs == {NoneArg, EmptyArg, UserArg}

\* Mutant of split_needs_init: the test is left out and every split runs init.
split_needs_init_always(self) == TRUE

\* Line 487 of split, 'if not self._frequencies': split runs init first.
split_needs_init(self) == NoFrequencies(self)

\* Mutant of lazy_init: init() runs on every split, whatever table is loaded.
lazy_init_always(self, freq_artifact, dict_artifact) ==
    [ran |-> TRUE] @@
    init(self, NoneArg, FALSE, DefaultParams, freq_artifact, dict_artifact)

\* Lines 487-488 of split: init() with its defaults when no table is loaded;
\* the outcome of that init, the instance it leaves, and whether it ran.
lazy_init(self, freq_artifact, dict_artifact) ==
    IF split_needs_init(self)
    THEN [ran |-> TRUE] @@
         init(self, NoneArg, FALSE, DefaultParams, freq_artifact, dict_artifact)
    ELSE [ran |-> FALSE, status |-> "ok", self |-> self]

\* The rest of split after the lazy init with outcome r: an exception of
\* init ends the call.
split_after(r, identifier, keep_numbers) ==
    IF r.status = "ok"
    THEN split_body(r.self, identifier, keep_numbers)
    ELSE [status |-> r.status, value |-> <<>>]

\* ------------------------------------------------------------------------
\* The state machine
\* ------------------------------------------------------------------------

VARIABLES
    ronin,          \* the attributes of _RONIN_INSTANCE
    identifier,     \* the identifier the callers pass to split
    keep_numbers,   \* the keep_numbers argument the callers pass
    freq_artifact,  \* state of data/frequencies.pklz on disk
    dict_artifact,  \* state of the dictionary sources on disk
    last,           \* the last call made and its outcome
    calls,          \* number of calls made so far
    callers         \* concurrent callers of split: where each one is

vars == <<ronin, identifier, keep_numbers, freq_artifact, dict_artifact, last, calls,
          callers>>

\* Callers that share the instance and call split concurrently.
Callers == 1..NumCallers

\* A caller that has not called yet.  began_initialized records whether a
\* completed init had set every attribute when the caller entered split.
IdleCaller ==
    [pc |-> "idle", began_initialized |-> FALSE, status |-> "none", value |-> <<>>]

\* Identifiers over the whole alphabet, up to MaxLen characters.
Identifiers == StringsUpTo(Alphabet, MaxLen)

\* The strings of the length of e that match e when case is ignored.
CaseVariants(e) == {m \in [1..Len(e) -> Alphabet] : lower(m) = e}

\* Identifiers a ++ m ++ b: a match m of a common term with numbers between
\* two runs of letters.
ExceptionIdentifiers ==
    {a \o m \o b : a \in StringsUpTo(LowerChars \cup UpperChars, MaxAffix),
                   m \in UNION {CaseVariants(e) : e \in common_terms_with_numbers},
                   b \in StringsUpTo(LowerChars \cup UpperChars, MaxAffix)}

\* A few identifiers for the specification that follows sequences of calls.
SampleIdentifiers ==
    { <<>>, <<"_">>, <<"s">>, <<"r", "X">>, <<"s", "r", "e">>, <<"x", "6", "4">> }

NoCall ==
    [op |-> "none", status |-> "ok", value |-> <<>>, number |-> 0, adjusted |-> 0,
     lazy |-> FALSE,
     frequencies |-> NoneArg, exact_case |-> FALSE, params |-> DefaultParams]

\* After construction of the module-level instance; no call made yet.
Init ==
    /\ ronin = NewRonin
    /\ identifier \in SampleIdentifiers
    /\ keep_numbers \in BOOLEAN
    /\ freq_artifact \in FreqArtifacts
    /\ dict_artifact \in DictArtifacts
    /\ last = NoCall
    /\ calls = 0
    /\ callers = [c \in Callers |-> IdleCaller]

\* The same with every identifier of the alphabet and the data files in place.
\* Identifiers a ++ suf: a suffix after a run of lower-case letters.
SuffixIdentifiers ==
    {a \o suf : a \in [1..MaxStem -> LowerChars], suf \in suffixes}

InitFn ==
    /\ ronin = NewRonin
    /\ identifier \in Identifiers \cup ExceptionIdentifiers \cup SuffixIdentifiers
    /\ keep_numbers \in BOOLEAN
    /\ freq_artifact = "ok"
    /\ dict_artifact = "pickle"
    /\ last = NoCall
    /\ calls = 0
    /\ callers = [c \in Callers |-> IdleCaller]

\* A caller calls init(frequencies, exact_case, **p).
InitCall(frequencies, exact_case, p) ==
    /\ calls < MaxCalls
    /\ \E r \in {init(ronin, frequencies, exact_case, p, freq_artifact, dict_artifact)} :
          /\ ronin' = r.self
          /\ last' = [op |-> "init", status |-> r.status, value |-> <<>>, number |-> 0,
                      adjusted |-> 0, lazy |-> FALSE, frequencies |-> frequencies,
                      exact_case |-> exact_case, params |-> p]
    /\ calls' = calls + 1
    /\ UNCHANGED <<identifier, keep_numbers, freq_artifact, dict_artifact, callers>>

\* A caller calls split(identifier, keep_numbers).
SplitCall ==
    /\ calls < MaxCalls
    /\ \E r \in {lazy_init(ronin, freq_artifact, dict_artifact)} :
          /\ ronin' = r.self
          /\ \E out \in {split_after(r, identifier, keep_numbers)} :
                last' = [op |-> "split", status |-> out.status, value |-> out.value,
                         number |-> 0, adjusted |-> 0, lazy |-> r.ran,
                         frequencies |-> NoneArg, exact_case |-> FALSE,
                         params |-> DefaultParams]
    /\ calls' = calls + 1
    /\ UNCHANGED <<identifier, keep_numbers, freq_artifact, dict_artifact, callers>>

\* A call of self._adjusted_score(identifier), which calls the score
\* function of the instance, self._score(identifier); the attribute does not
\* exist before an init has completed.  'number' is the raw score and
\* 'adjusted' the adjusted one.
ScoreCall ==
    /\ calls < MaxCalls
    /\ last' = [op |-> "score",
                status |-> IF ronin.score = "unset" THEN "AttributeError" ELSE "ok",
                value |-> <<>>,
                number |-> IF ronin.score = "unset" THEN 0 ELSE score(ronin, identifier),
                adjusted |-> IF ronin.score = "unset" THEN 0
                             ELSE adjusted_score(ronin, identifier),
                lazy |-> FALSE, frequencies |-> NoneArg,
                exact_case |-> FALSE, params |-> DefaultParams]
    /\ calls' = calls + 1
    /\ UNCHANGED <<ronin, identifier, keep_numbers, freq_artifact, dict_artifact, callers>>

Next ==
    \/ \E frequencies \in FreqArgs, exact_case \in BOOLEAN, p \in ParamSets :
          InitCall(frequencies, exact_case, p)
    \/ SplitCall
    \/ ScoreCall

Spec == Init /\ [][Next]_vars

\* One init at most, as the first call, then calls of split and score.
NextFn ==
    \/ \E frequencies \in {NoneArg, UserArg}, exact_case \in BOOLEAN, p \in ParamSets :
          calls = 0 /\ InitCall(frequencies, exact_case, p)
    \/ calls < 2 /\ SplitCall
    \/ calls < 2 /\ ScoreCall

SpecFn == InitFn /\ [][NextFn]_vars

\* ------------------------------------------------------------------------
\* The splitters of simple_splitters.py, called as functions of the package.
\* ------------------------------------------------------------------------

\* Identifiers of camel-case pieces: a lower-case letter, an upper-case
\* letter and the delimiter.
CamelIdentifiers == StringsUpTo({"s", "X", "_"}, MaxCamel)

SimpleIdentifiers == Identifiers \cup ExceptionIdentifiers \cup CamelIdentifiers

InitSimple ==
    /\ ronin = NewRonin
    /\ identifier \in SimpleIdentifiers
    /\ keep_numbers \in BOOLEAN
    /\ freq_artifact = "ok"
    /\ dict_artifact = "pickle"
    /\ last = NoCall
    /\ calls = 0
    /\ callers = [c \in Callers |-> IdleCaller]

\* A call of a function of the package that returns 'value'.  The functions
\* keep no state, so one call is followed.
LibraryCall(op, value) ==
    /\ calls = 0
    /\ last' = [NoCall EXCEPT !.op = op, !.value = value]
    /\ calls' = calls + 1
    /\ UNCHANGED <<ronin, identifier, keep_numbers, freq_artifact, dict_artifact, callers>>

\* pure_camelcase_split(identifier, safe); with safe = True it is the
\* safe_camelcase_split of the tests.
PureCamelcaseSplitCall(safe) ==
    LibraryCall(IF safe THEN "safe_camelcase_split" ELSE "pure_camelcase_split",
                pure_camelcase_split(identifier, safe))

SafeSimpleSplitCall == LibraryCall("safe_simple_split", safe_simple_split(identifier))

SimpleSplitCall == LibraryCall("simple_split", simple_split(identifier))

ElementarySplitCall == LibraryCall("elementary_split", elementary_split(identifier))

HeuristicSplitCall ==
    LibraryCall("heuristic_split", heuristic_split(identifier, keep_numbers))

NextSimple ==
    \/ \E safe \in BOOLEAN : PureCamelcaseSplitCall(safe)
    \/ SafeSimpleSplitCall
    \/ SimpleSplitCall
    \/ ElementarySplitCall
    \/ HeuristicSplitCall

SpecSimple == InitSimple /\ [][NextSimple]_vars

\* ------------------------------------------------------------------------
\* The loaders of frequencies.py, called as functions of the package.
\* ------------------------------------------------------------------------

\* Words and frequencies of the entries of a frequency file.
FileWords == { <<"s">>, <<"r", "e">>, <<"e", "x">>, <<"s", "e", "e">> }

FileCounts == {1, 3, 5}

\* The contents of a frequency file: up to MaxRows entries in order.
FileRows == UNION {[1..n -> FileWords \X FileCounts] : n \in 0..MaxRows}

\* The values of the argument 'threshold'; 0 stands for None too.
Thresholds == {0, 3}

\* The values of the argument 'filter_words'; {} stands for None too.
FilterWords == { {}, {<<"r", "e">>}, {<<"e">>} }

InitFreq ==
    /\ ronin = NewRonin
    /\ identifier = <<>>
    /\ keep_numbers = TRUE
    /\ freq_artifact = "ok"
    /\ dict_artifact = "pickle"
    /\ last = NoCall
    /\ calls = 0
    /\ callers = [c \in Callers |-> IdleCaller]

\* A call of a loader on a file with the given rows.  The loaders keep no
\* state, so one call is followed.
LoaderCall(op, rows, file_threshold, filter_words, value) ==
    /\ calls = 0
    /\ last' = [op |-> op, status |-> "ok", rows |-> rows, threshold |-> file_threshold,
                filter_words |-> filter_words, value |-> value]
    /\ calls' = calls + 1
    /\ UNCHANGED <<ronin, identifier, keep_numbers, freq_artifact, dict_artifact, callers>>

\* frequencies_from_csv_file(filename, threshold, filter_words)
CsvFileCall(rows, file_threshold, filter_words) ==
    LoaderCall("frequencies_from_csv_file", rows, file_threshold, filter_words,
               frequencies_from_csv_file(rows, file_threshold, filter_words))

\* frequencies_from_pickle(filename, threshold, filter_words); the pickled
\* object is a dictionary, so no word occurs twice.
PickleCall(rows, file_threshold, filter_words) ==
    /\ \A j, k \in DOMAIN rows : rows[j][1] = rows[k][1] => j = k
    /\ LoaderCall("frequencies_from_pickle", rows, file_threshold, filter_words,
                  frequencies_from_pickle_data(rows, file_threshold, filter_words))

NextFreq ==
    \E rows \in FileRows, file_threshold \in Thresholds, filter_words \in FilterWords :
        \/ CsvFileCall(rows, file_threshold, filter_words)
        \/ PickleCall(rows, file_threshold, filter_words)

SpecFreq == InitFreq /\ [][NextFreq]_vars

\* ------------------------------------------------------------------------
\* Concurrent callers of split.  The code takes no lock, so the steps of a
\* lazy init run by one caller interleave with the steps of the others.
\* ------------------------------------------------------------------------

\* Caller c enters split and tests self._frequencies (line 487).
SplitBegin(c) ==
    /\ callers[c].pc = "idle"
    /\ callers' = [callers EXCEPT
          ![c].pc = IF split_needs_init(ronin) THEN "init_frequencies" ELSE "body",
          ![c].began_initialized = Initialized(ronin)]
    /\ UNCHANGED <<ronin, identifier, keep_numbers, freq_artifact, dict_artifact,
                   last, calls>>

\* The outcome r of one part of init run by caller c: the instance is
\* updated and the caller moves on, or the exception ends its call.
InitPart(c, r, next_pc) ==
    /\ ronin' = r.self
    /\ callers' = [callers EXCEPT
          ![c].pc = IF r.status = "ok" THEN next_pc ELSE "done",
          ![c].status = IF r.status = "ok" THEN "none" ELSE r.status]
    /\ UNCHANGED <<identifier, keep_numbers, freq_artifact, dict_artifact, last, calls>>

\* Lines 364-383 of init, run by caller c.
InitFrequencies(c) ==
    /\ callers[c].pc = "init_frequencies"
    /\ InitPart(c, init_frequencies(ronin, NoneArg, FALSE, freq_artifact), "init_params")

\* Lines 384-394 of init, run by caller c.
InitParams(c) ==
    /\ callers[c].pc = "init_params"
    /\ InitPart(c, init_params(ronin, FALSE, DefaultParams), "init_dictionary")

\* Lines 395-411 of init, run by caller c.
InitDictionary(c) ==
    /\ callers[c].pc = "init_dictionary"
    /\ InitPart(c, init_dictionary(ronin, dict_artifact), "init_score")

\* Lines 412-436 of init, run by caller c.
InitScore(c) ==
    /\ callers[c].pc = "init_score"
    /\ InitPart(c, [status |-> "ok", self |-> init_score(ronin, FALSE)], "body")

\* Lines 490-534 of split, run by caller c on the instance as it is now.
SplitBody(c) ==
    /\ callers[c].pc = "body"
    /\ \E out \in {split_body(ronin, identifier, keep_numbers)} :
          callers' = [callers EXCEPT ![c].pc = "done",
                                     ![c].status = out.status,
                                     ![c].value = out.value]
    /\ UNCHANGED <<ronin, identifier, keep_numbers, freq_artifact, dict_artifact,
                   last, calls>>

NextConc ==
    \E c \in Callers :
        \/ SplitBegin(c)
        \/ InitFrequencies(c)
        \/ InitParams(c)
        \/ InitDictionary(c)
        \/ InitScore(c)
        \/ SplitBody(c)

SpecConc == Init /\ [][NextConc]_vars

\* ------------------------------------------------------------------------
\* Properties
\* ------------------------------------------------------------------------

\* The state follows a call of split that returned a list.
SplitReturned == last.op = "split" /\ last.status = "ok"

\* The identifier with its hard-delimiter characters removed.
WithoutDelimiters(s) == SelectSeq(s, LAMBDA ch : ch \notin delimiter_chars)

\* Only letters, digits and hard delimiters occur in s.
OverLettersDigitsDelimiters(s) ==
    \A k \in DOMAIN s : s[k] \in LowerChars \cup UpperChars \cup DigitChars \cup delimiter_chars

\* C1: after a successful init, for an identifier over letters, digits and
\* hard delimiters, the tokens split(identifier, keep_numbers=True) returns,
\* concatenated in order, are the identifier without its delimiters.
C1_Concatenation ==
    (SplitReturned /\ keep_numbers /\ OverLettersDigitsDelimiters(identifier))
        => Concat(last.value) = WithoutDelimiters(identifier)

\* C1 witness: a split with keep_numbers that dropped a delimiter and cut
\* the rest in more than one token.
C1_Witness ==
    /\ SplitReturned /\ keep_numbers
    /\ OverLettersDigitsDelimiters(identifier)
    /\ \E k \in DOMAIN identifier : identifier[k] \in delimiter_chars
    /\ Len(last.value) >= 2
    /\ Concat(last.value) # identifier

HasTable(self) == self.frequencies_set /\ DOMAIN self.frequencies # {}

\* The step is a call of split, respectively of init.
SplitStep == calls' # calls /\ last'.op = "split"

InitStep == calls' # calls /\ last'.op = "init"

\* The numeric parameters stored in the instance are those of p.
ParamsAre(self, p) ==
    /\ self.params_set
    /\ self.low_freq_cutoff = p.low_freq_cutoff
    /\ self.length_cutoff = p.length_cutoff
    /\ self.short_min_freq = p.short_min_freq
    /\ self.normal_exponent = p.normal_exponent
    /\ self.dict_word_exponent = p.dict_word_exponent
    /\ self.camel_bias = p.camel_bias
    /\ self.recognition_bias = p.recognition_bias
    /\ self.alt_exponent = p.alt_exponent

\* C3 as stated: in a sequence of split calls only the first one can
\* trigger init, so a split that follows a split never runs init.
C3_Original ==
    [][(SplitStep /\ last.op = "split") => ~last'.lazy]_vars

\* C3 as amended: a split call runs init, with the default arguments,
\* exactly when no non-empty table is stored, and splits only if that init
\* succeeded; a stored table stays stored, so that no later split runs init,
\* and no split that follows a split that returned normally runs init.
C3_LazyInit ==
    [][/\ HasTable(ronin) => HasTable(ronin')
       /\ SplitStep =>
            /\ last'.lazy <=> ~HasTable(ronin)
            /\ (last'.lazy /\ last'.status = "ok") =>
                   /\ Initialized(ronin')
                   /\ ParamsAre(ronin', DefaultParams)
                   /\ ~ronin'.exact_case
            /\ (last.op = "split" /\ last.status = "ok") => ~last'.lazy]_vars

\* C3 witness: a split that did not run init follows two other calls, the
\* table being the one a lazy init loads.
C3_Witness ==
    /\ SplitReturned /\ ~last.lazy /\ calls = 3
    /\ ronin.frequencies = DefaultTable
    /\ Len(last.value) >= 2

\* C5: once init has completed, a call of split changes no attribute of
\* the instance, and repeated with the same arguments it returns the same
\* list.
C5_SplitReadsOnly ==
    [][(SplitStep /\ Initialized(ronin)) =>
          /\ ronin' = ronin
          /\ last'.status = "ok"
          /\ last.op = "split" => last'.value = last.value]_vars

\* C5 witness: the second of two splits on an instance that an explicit
\* init had set up with parameters other than the defaults.
C5_Witness ==
    /\ SplitReturned /\ ~last.lazy /\ calls = 3
    /\ ParamsAre(ronin, TunedParams)
    /\ Len(last.value) >= 2

\* init was called without a frequency table (None, or an empty one).
NoTableArg(frequencies) == ~frequencies.given \/ DOMAIN frequencies.table = {}

\* C6: init called with no frequency table on an instance without a table,
\* when the default pickle does not exist, raises ValueError and leaves
\* the instance as it was.
C6_MissingArtifact ==
    [][(/\ InitStep
        /\ NoTableArg(last'.frequencies)
        /\ ~HasTable(ronin)
        /\ freq_artifact = "missing")
          => /\ last'.status = "ValueError"
             /\ ronin' = ronin
             /\ ~HasTable(ronin')]_vars

\* C6 witness: init has raised ValueError on a fresh instance because the
\* pickle is missing.
C6_Witness ==
    /\ last.op = "init" /\ last.status = "ValueError"
    /\ ~last.frequencies.given
    /\ freq_artifact = "missing"
    /\ ronin = NewRonin

\* C7: when the default pickle exists but cannot be read, init called
\* without a table raises; and init never completes with an empty table,
\* nor with a part of the pickled table.
C7_CorruptArtifact ==
    [][InitStep =>
          /\ (/\ NoTableArg(last'.frequencies)
              /\ ~HasTable(ronin)
              /\ freq_artifact = "corrupt") => last'.status = "ValueError"
          /\ last'.status = "ok" => HasTable(ronin')
          /\ (/\ last'.status = "ok"
              /\ NoTableArg(last'.frequencies)
              /\ ~HasTable(ronin)) => ronin'.frequencies = DefaultTable]_vars

\* C7 witness: init has raised on the unreadable pickle, after the empty
\* table it got was stored.
C7_Witness ==
    /\ last.op = "init" /\ last.status = "ValueError"
    /\ freq_artifact = "corrupt"
    /\ ronin.frequencies_set /\ DOMAIN ronin.frequencies = {}

\* C8 as stated: init called with a numeric parameter outside its
\* documented range fails and leaves the instance as it was.
C8_Original ==
    [][(InitStep /\ ~InRange(last'.params)) =>
          /\ last'.status # "ok"
          /\ ronin' = ronin]_vars

\* C8 as amended: init does not check the numeric parameters.  Whether it
\* completes does not depend on them, and when it completes they are
\* stored as passed, inside their documented ranges or not.
C8_NoRangeCheck ==
    [][InitStep =>
          /\ last'.status =
               init(ronin, last'.frequencies, last'.exact_case, DefaultParams,
                    freq_artifact, dict_artifact).status
          /\ last'.status = "ok" => ParamsAre(ronin', last'.params)]_vars

\* C8 witness: init has completed with parameters outside their ranges.
C8_Witness ==
    /\ last.op = "init" /\ last.status = "ok"
    /\ ~InRange(last.params)
    /\ ParamsAre(ronin, OutOfRangeParams)

\* C9: after the first init with exact_case false and a supplied table F,
\* the keys of the stored table are the lower-cased keys of F and each is
\* mapped to the largest value F gives to a key with that lower-case form.
C9_LowercaseCollapse ==
    [][(/\ InitStep
        /\ ~HasTable(ronin)
        /\ ~NoTableArg(last'.frequencies)
        /\ ~last'.exact_case)
          => /\ DOMAIN ronin'.frequencies =
                   {lower(k) : k \in DOMAIN last'.frequencies.table}
             /\ \A key \in DOMAIN ronin'.frequencies :
                   /\ \E k \in DOMAIN last'.frequencies.table :
                         /\ lower(k) = key
                         /\ last'.frequencies.table[k] = ronin'.frequencies[key]
                   /\ \A k \in DOMAIN last'.frequencies.table :
                         lower(k) = key =>
                             last'.frequencies.table[k] <= ronin'.frequencies[key]]_vars

\* C9 witness: the first init, given a table with the keys rx, RX and Rx,
\* has stored the largest of their values under rx.
C9_Witness ==
    /\ last.op = "init" /\ last.status = "ok" /\ calls = 1
    /\ last.frequencies = UserArg /\ ~last.exact_case
    /\ ronin.frequencies[<<"r", "x">>] = UserTable[<<"R", "X">>]
    /\ <<"R", "X">> \notin DOMAIN ronin.frequencies

\* The probes of the raw score, in order, under the case policy of self.
Probes(self, token) ==
    IF self.score = "exact_case"
    THEN <<token, capitalize(token), lower(token)>>
    ELSE <<lower(token)>>

\* The raw score as section 4.2 of the specification defines it.
RawScore(self, token) ==
    IF lower(token) \in common_terms_with_numbers THEN self.highest_freq
    ELSE LET probes == Probes(self, token)
             hits   == {k \in DOMAIN probes : probes[k] \in DOMAIN self.frequencies}
         IN IF hits = {} THEN 0
            ELSE self.frequencies[probes[CHOOSE k \in hits : \A j \in hits : k <= j]]

\* C10: the raw score of a token is highest_freq when its lower-case form
\* is a common term with numbers; otherwise the table value of the first
\* probe that is a key (exact_case: the token, capitalized, lower-cased;
\* else the lower-cased token alone), and 0 when no probe is a key.
C10_RawScore ==
    (last.op = "score" /\ last.status = "ok")
        => last.number = RawScore(ronin, identifier)

\* C10 witness: under exact_case the token is no key, its capitalized and
\* lower-case forms are keys with different values, and the score is the
\* value of the capitalized form.
C10_Witness ==
    /\ last.op = "score" /\ last.status = "ok"
    /\ ronin.score = "exact_case"
    /\ identifier \notin DOMAIN ronin.frequencies
    /\ capitalize(identifier) \in DOMAIN ronin.frequencies
    /\ lower(identifier) \in DOMAIN ronin.frequencies
    /\ ronin.frequencies[capitalize(identifier)] # ronin.frequencies[lower(identifier)]
    /\ last.number = ronin.frequencies[capitalize(identifier)]

\* The data files are such that init() can complete.
ArtifactsUsable == freq_artifact = "ok" /\ dict_artifact # "unavailable"

\* What split(identifier, keep_numbers) returns when it runs alone on an
\* instance on which init() with its defaults has completed.
AloneValue ==
    split(init(NewRonin, NoneArg, FALSE, DefaultParams, freq_artifact, dict_artifact).self,
          identifier, keep_numbers)

HasCaseBoundary(s) ==
    \E k \in 1..(Len(s) - 1) : IsLower(s[k]) /\ IsUpper(s[k + 1])

\* s holds a hard-delimiter character.
HasDelimiter(s) == \E k \in DOMAIN s : s[k] \in delimiter_chars

ExceptionForms(s) ==
    {<<Upto(s, i - 1), SubSeq(s, i, i + Len(e) - 1), From(s, i + Len(e) - 1)>> :
        <<i, e>> \in {x \in (1..Len(s)) \X common_terms_with_numbers :
                        /\ x[2] \in ExceptionsAt(s, x[1], common_terms_with_numbers)
                        /\ \A k \in (1..(x[1] - 1)) \cup ((x[1] + Len(x[2]))..Len(s)) :
                              IsLower(s[k]) \/ IsUpper(s[k])}}

\* The token list holds m as one token, right after the tokens that make a.
HoldsWhole(tokens, a, m) ==
    \E k \in DOMAIN tokens : tokens[k] = m /\ Concat(SubSeq(tokens, 1, k - 1)) = a

\* split and heuristic_split both keep the match of the form whole.
Preserved(form) ==
    /\ HoldsWhole(last.value, form[1], form[2])
    /\ HoldsWhole(heuristic_split(identifier, keep_numbers), form[1], form[2])

\* C12 as stated: in an identifier a ++ m ++ b, a and b letters and m any
\* match ignoring case of a common term with numbers, split and
\* heuristic_split keep m as one token.
C12_Original ==
    SplitReturned => \A form \in ExceptionForms(identifier) : Preserved(form)

\* C12: in an identifier a ++ m ++ b, a and b letters and m a match ignoring
\* case of a common term with numbers that has no lower-case letter directly
\* before an upper-case one, split and heuristic_split keep m as one token.
C12_ExceptionPreservation ==
    SplitReturned =>
        \A form \in ExceptionForms(identifier) :
            ~HasCaseBoundary(form[2]) => Preserved(form)

\* C12 witness: split has returned for a common term that does not end in a
\* common suffix number, standing between two letters, and kept it whole.
C12_Witness ==
    /\ SplitReturned
    /\ \E form \in ExceptionForms(identifier) :
          /\ form[1] # <<>> /\ form[3] # <<>>
          /\ form[2] \in common_terms_with_numbers
          /\ \A suf \in common_suffix_numbers : ~endswith(form[2], suf)
          /\ Preserved(form)

\* The token lists _same_case_split returns for s on the instance: with the
\* score split passes, and with a score of zero.
SameCaseResults(s) ==
    {same_case_split(ronin, s, score_ns)[2] : score_ns \in {0, adjusted_score(ronin, s)}}

\* C13: for s = p ++ rest, rest not empty and lower(p) a prefix,
\* _same_case_split(s) returns no result whose first token is p; and when
\* len(s) > 5 and lower(right) is a suffix, the split (left, right) is not
\* the result.
C13_PrefixBlacklist ==
    (SplitReturned /\ OverLettersDigitsDelimiters(identifier)) =>
        \A result \in SameCaseResults(identifier) : \A n \in 1..(Len(identifier) - 1) :
            /\ lower(Upto(identifier, n)) \in prefixes => result[1] # Upto(identifier, n)
            /\ (Len(identifier) > 5 /\ lower(From(identifier, n)) \in suffixes)
                  => result # <<Upto(identifier, n), From(identifier, n)>>

\* C13 witness: an unrecognized s = p ++ rest where p and rest both score
\* above the threshold, so that only the skip keeps the cut away, and
\* _same_case_split returns s whole or cut elsewhere.
C13_Witness ==
    /\ SplitReturned
    /\ ~recognized(ronin, identifier)
    /\ \E n \in 1..(Len(identifier) - 1) :
          /\ lower(Upto(identifier, n)) \in prefixes
          /\ adjusted_score(ronin, Upto(identifier, n)) > adjusted_score(ronin, identifier)
          /\ adjusted_score(ronin, From(identifier, n)) > adjusted_score(ronin, identifier)
          /\ \A result \in SameCaseResults(identifier) : result[1] # Upto(identifier, n)

\* A non-empty string of digits only.
AllDigits(token) == token # <<>> /\ \A k \in DOMAIN token : IsDigit(token[k])

\* C14: with keep_numbers=False neither heuristic_split nor split returns a
\* token that consists only of digits.  (The documented behaviour; split
\* breaks it when the frequency table holds a key of digits.)
C14_NoDigitTokens ==
    (SplitReturned /\ ~keep_numbers) =>
        /\ \A k \in DOMAIN last.value : ~AllDigits(last.value[k])
        /\ \A token \in {heuristic_split(identifier, FALSE)[k] :
                            k \in DOMAIN heuristic_split(identifier, FALSE)} : ~AllDigits(token)

\* s without the digits that lead it and the digits that end it.
StripDigits(s) == rstrip_digits(lstrip_digits(s))

\* Only letters and digits occur in s.
OverLettersDigits(s) ==
    \A k \in DOMAIN s : s[k] \in LowerChars \cup UpperChars \cup DigitChars

\* C15: with keep_numbers=False the digits in the middle of a token are
\* retained: for an identifier of letters and digits, the tokens of split
\* and of heuristic_split, concatenated, differ from the identifier at most
\* in the digits that lead and the digits that end them.  (The documented
\* behaviour; heuristic_split removes every run of digits of a piece it does
\* not keep whole.)
C15_MiddleDigitsRetained ==
    (SplitReturned /\ ~keep_numbers /\ OverLettersDigits(identifier)) =>
        /\ StripDigits(Concat(last.value)) = StripDigits(identifier)
        /\ StripDigits(Concat(heuristic_split(identifier, FALSE))) = StripDigits(identifier)

\* The adjusted score of the identifier has been computed on the instance.
ScoreReturned == last.op = "score" /\ last.status = "ok"

\* The rule for short tokens applies to the identifier and its raw score.
ShortRule ==
    /\ Len(identifier) <= ronin.length_cutoff
    /\ identifier \notin common_terms_with_numbers
    /\ identifier \notin special_computing_terms
    /\ stem(identifier) \notin special_computing_terms
    /\ last.number <= ronin.short_min_freq

C17_ShortMinFreqInclusive ==
    (/\ ScoreReturned
     /\ identifier # <<>>
     /\ Len(identifier) <= ronin.length_cutoff
     /\ last.number >= ronin.short_min_freq
     /\ last.number > ronin.low_freq_cutoff)
        => last.adjusted # 0

\* C18: the tests of a token against prefixes, suffixes, the common terms
\* with numbers and the special computing terms give the same answer for a
\* token and for its lower-case form, hence for all its case variants.
\* (The case-insensitive comparison the specification requires; the
\* special-case test of _adjusted_score and _same_case_split takes the token
\* as given.)
C18_CaseInsensitiveTests ==
    ScoreReturned =>
        /\ special_case(identifier) = special_case(lower(identifier))
        /\ is_prefix(identifier) = is_prefix(lower(identifier))
        /\ is_suffix(identifier) = is_suffix(lower(identifier))

\* split has returned for an identifier that heuristic_split leaves in one
\* piece and that is not recognized: the piece the camel-case step decides on.
SinglePiece ==
    /\ SplitReturned
    /\ heuristic_split(identifier, keep_numbers) = <<identifier>>
    /\ ~recognized(ronin, identifier)

\* The 0-based indexes of the upper-case letters of s that directly follow a
\* lower-case letter.
LowerToUpper(s) == {k \in 1..(Len(s) - 1) : IsLower(s[k]) /\ IsUpper(s[k + 1])}

\* The 0-based indexes of the upper-case letters of s that are directly
\* followed by a lower-case letter.
UpperToLower(s) == {k - 1 : k \in {j \in 1..(Len(s) - 1) : IsUpper(s[j]) /\ IsLower(s[j + 1])}}

\* The least of a non-empty set of indexes.
First(indexes) == CHOOSE i \in indexes : \A j \in indexes : i <= j

\* The pieces the camel-case step may make of s at the upper-case letter of
\* index i: s whole when i = 0, the cut before the letter, the cut after it.
CutsAt(s, i) ==
    (IF i = 0 THEN {<<s>>} ELSE {<<Upto(s, i), From(s, i)>>})
        \cup {<<Upto(s, i + 1), From(s, i + 1)>>}

\* C19 as stated: the camel-case cut of an unrecognized piece is decided at
\* its first lower-to-upper transition, and a piece without one is passed
\* on whole.
C19_Original ==
    SinglePiece =>
        IF LowerToUpper(identifier) = {}
        THEN camel_parts(ronin, identifier) = <<identifier>>
        ELSE camel_parts(ronin, identifier) \in CutsAt(identifier, First(LowerToUpper(identifier)))

\* C19: the camel-case cut of an unrecognized piece is decided at its first
\* upper-to-lower transition (an upper-case letter directly followed by a
\* lower-case one), and a piece without one is passed on whole.
C19_UpperToLower ==
    SinglePiece =>
        IF UpperToLower(identifier) = {}
        THEN camel_parts(ronin, identifier) = <<identifier>>
        ELSE camel_parts(ronin, identifier) \in CutsAt(identifier, First(UpperToLower(identifier)))

\* C19 witness: an unrecognized piece whose first upper-to-lower transition
\* is not at its start is cut before the upper-case letter.
C19_Witness ==
    /\ SinglePiece
    /\ UpperToLower(identifier) # {}
    /\ First(UpperToLower(identifier)) > 0
    /\ camel_parts(ronin, identifier) =
          <<Upto(identifier, First(UpperToLower(identifier))),
            From(identifier, First(UpperToLower(identifier)))>>

\* camel_score >= alt_score for the piece s and the index i, in fixed point
\* (the raw score is an integer, the adjusted score is held times SCALE and
\* the bias times UNIT): camel_score = raw(s[i..]), raw(s) when i = 0, and
\* alt_score = adj(s[i+1..]) * camel_bias.
CamelWins(s, i) ==
    score(ronin, IF i = 0 THEN s ELSE From(s, i)) * SCALE
        >= CeilDiv(adjusted_score(ronin, From(s, i + 1)) * ronin.camel_bias, UNIT)

\* C20: at the located transition, i being the index of its upper-case
\* letter, the piece is cut as [s[..i], s[i..]] (kept whole when i = 0) when
\* camel_score >= alt_score and as [s[..i+1], s[i+1..]] otherwise, and no
\* part is empty.
C20_CamelDecision ==
    (SinglePiece /\ UpperToLower(identifier) # {}) =>
        /\ camel_parts(ronin, identifier) =
              IF CamelWins(identifier, First(UpperToLower(identifier)))
              THEN (IF First(UpperToLower(identifier)) = 0 THEN <<identifier>>
                    ELSE <<Upto(identifier, First(UpperToLower(identifier))),
                           From(identifier, First(UpperToLower(identifier)))>>)
              ELSE <<Upto(identifier, First(UpperToLower(identifier)) + 1),
                     From(identifier, First(UpperToLower(identifier)) + 1)>>
        /\ \A k \in DOMAIN camel_parts(ronin, identifier) :
              camel_parts(ronin, identifier)[k] # <<>>

\* C20 witness: the rest after the upper-case letter scores better and the
\* piece is cut after that letter.
C20_Witness ==
    /\ SinglePiece
    /\ UpperToLower(identifier) # {}
    /\ ~CamelWins(identifier, First(UpperToLower(identifier)))
    /\ camel_parts(ronin, identifier) =
          <<Upto(identifier, First(UpperToLower(identifier)) + 1),
            From(identifier, First(UpperToLower(identifier)) + 1)>>

\* The pieces split hands to _same_case_split; with each it passes the
\* adjusted score of the piece as score_ns.
TopLevelPieces ==
    {camel_split(ronin, heuristic_split(identifier, keep_numbers))[k] :
        k \in DOMAIN camel_split(ronin, heuristic_split(identifier, keep_numbers))}

\* C21 as stated: the threshold of every invocation of _same_case_split is
\* positive, also in the invocation split makes for a piece whose adjusted
\* score is 0.
C21_Original ==
    SplitReturned =>
        \A p \in TopLevelPieces : threshold(ronin, p, adjusted_score(ronin, p)) > 0

\* C21: in the invocation split makes for a piece p the threshold is
\* adj(p), which is 0 for a piece of adjusted score 0; in an invocation
\* nested in it, on a suffix s of p, it is max(adj(s), adj(p)).  It is
\* never negative.
C21_ThresholdIsPieceScore ==
    SplitReturned =>
        \A p \in TopLevelPieces :
            /\ threshold(ronin, p, adjusted_score(ronin, p)) = adjusted_score(ronin, p)
            /\ \A k \in 1..(Len(p) - 1) :
                  /\ threshold(ronin, From(p, k), adjusted_score(ronin, p)) >= adjusted_score(ronin, p)
                  /\ threshold(ronin, From(p, k), adjusted_score(ronin, p)) >= adjusted_score(ronin, From(p, k))
                  /\ threshold(ronin, From(p, k), adjusted_score(ronin, p))
                        \in {adjusted_score(ronin, p), adjusted_score(ronin, From(p, k))}
            /\ threshold(ronin, p, adjusted_score(ronin, p)) >= 0

\* C21 witness: split has returned for an identifier with a piece of
\* adjusted score 0, whose threshold was 0.
C21_Witness ==
    /\ SplitReturned
    /\ \E p \in TopLevelPieces :
          /\ adjusted_score(ronin, p) = 0
          /\ threshold(ronin, p, adjusted_score(ronin, p)) = 0
          /\ Len(p) >= 2

\* The pieces split hands to _same_case_split that are not recognized, so
\* that the scan over their split points is made.
ScannedPieces == {p \in TopLevelPieces : ~recognized(ronin, p)}

\* The token list _same_case_split returns for the piece p of split.
ResultOf(p) == same_case_split(ronin, p, adjusted_score(ronin, p))[2]

\* The loop's variables at the end of the scan of the piece p of split.
ScanOf(p) == scan_final(ronin, p, adjusted_score(ronin, p))

\* The entry e of 'splits' is not below any other, and its score divided by
\* len(split) ^ alt_exponent reaches score_ns = adj(p).
BestAndClears(p, e) ==
    /\ \A k \in DOMAIN ScanOf(p).splits :
          ~(\/ e[1] < ScanOf(p).splits[k][1]
            \/ e[1] = ScanOf(p).splits[k][1]
                 /\ Len(e[2][1]) < Len(ScanOf(p).splits[k][2][1]))
    /\ e[1] * SCALE >= adjusted_score(ronin, p) * pow_len(Len(e[2]), ronin.alt_exponent)

\* C22 as stated: when the scan assigned a primary split (new_split),
\* _same_case_split returns it.
C22_Original ==
    SplitReturned =>
        \A p \in ScannedPieces :
            ScanOf(p).new_split # <<>> => ResultOf(p) = ScanOf(p).new_split

\* C22: whether or not the scan assigned a primary split, _same_case_split
\* returns the split of the highest-scoring entry of 'splits', primary or
\* alternate, when its length-rescaled score reaches score_ns, and [s]
\* otherwise.
C22_BestCandidate ==
    SplitReturned =>
        \A p \in ScannedPieces :
            IF \E k \in DOMAIN ScanOf(p).splits : BestAndClears(p, ScanOf(p).splits[k])
            THEN \E k \in DOMAIN ScanOf(p).splits :
                    /\ BestAndClears(p, ScanOf(p).splits[k])
                    /\ ResultOf(p) = ScanOf(p).splits[k][2]
            ELSE ResultOf(p) = <<p>>

\* C22 witness: the scan of a piece assigned a primary split, and an
\* alternate with a higher score is what _same_case_split returns.
C22_Witness ==
    /\ SplitReturned
    /\ \E p \in ScannedPieces :
          /\ ScanOf(p).new_split # <<>>
          /\ ResultOf(p) # <<p>>
          /\ ResultOf(p) # ScanOf(p).new_split

\* t is a suffix of s and shorter than s.
IsProperSuffix(t, s) == Len(t) < Len(s) /\ t = SubSeq(s, Len(s) - Len(t) + 1, Len(s))

\* C23: _same_case_split ends for every piece: each recursive call of the
\* invocation is made on a proper suffix of its argument, the nesting depth
\* is at most len(s), and when the scan records no candidate the result is
\* [s].
C23_Termination ==
    SplitReturned =>
        \A p \in TopLevelPieces :
            /\ \A i \in 1..(Len(p) - 1) :
                  recursion_made(ronin, p, adjusted_score(ronin, p), i)
                      => IsProperSuffix(recursive_arg(p, i), p)
            /\ nesting_depth(ronin, p, adjusted_score(ronin, p)) <= Len(p)
            /\ (~recognized(ronin, p) /\ ScanOf(p).splits = <<>>) => ResultOf(p) = <<p>>

\* C23 witness: split has returned for a piece whose scan made a recursive
\* call that made a recursive call in turn.
C23_Witness ==
    /\ SplitReturned
    /\ \E p \in TopLevelPieces :
          /\ nesting_depth(ronin, p, adjusted_score(ronin, p)) >= 3
          /\ nesting_depth(ronin, p, adjusted_score(ronin, p)) <= Len(p)

\* The identifier without its delimiter characters.
Strip(s) == SelectSeq(s, LAMBDA c : c \notin delimiter_chars)

\* The number of characters of s[1..j] that are not delimiters.
Idx(s, j) == Len(Strip(SubSeq(s, 1, j)))

\* The places of Strip(s) that correspond to the places j of s, between
\* s[j] and s[j+1], that satisfy At; the two ends of the string excluded.
Places(s, At(_)) ==
    {Idx(s, j) : j \in {k \in 1..(Len(s) - 1) : At(k)}} \ {0, Len(Strip(s))}

\* The places where the tokens meet in their concatenation.
CutPoints(tokens) ==
    {Len(Concat(SubSeq(tokens, 1, k))) : k \in 1..(Len(tokens) - 1)}

\* Places of the identifier next to a delimiter.
DelimCuts ==
    Places(identifier, LAMBDA j : identifier[j] \in delimiter_chars
                                     \/ identifier[j + 1] \in delimiter_chars)

\* Places of the identifier before an upper-case letter that follows a
\* lower-case letter.
CamelCuts ==
    Places(identifier, LAMBDA j : IsLower(identifier[j]) /\ IsUpper(identifier[j + 1]))

\* Places of the identifier where a run of digits begins or ends.
DigitCuts ==
    Places(identifier, LAMBDA j : IsDigit(identifier[j]) # IsDigit(identifier[j + 1]))

\* Places of the identifier where a match of a common term with numbers
\* begins or ends.
ExceptionCuts ==
    Places(identifier, LAMBDA j :
        \E i \in 1..Len(identifier) :
            \E e \in ExceptionsAt(identifier, i, common_terms_with_numbers) :
                j = i - 1 \/ j = i + Len(e) - 1)

\* The tokens are the identifier without its delimiters, cut into non-empty
\* tokens.
CutsIdentifier(tokens) ==
    /\ Concat(tokens) = Strip(identifier)
    /\ \A k \in DOMAIN tokens : tokens[k] # <<>>

\* C24: simple_split cuts, besides at delimiters, exactly before each
\* upper-case letter that follows a lower-case letter; elementary_split and
\* heuristic_split make each of these cuts too, and each of their other cuts
\* is at a delimiter, at the end of a run of digits or of a common term with
\* numbers: none is inside a run of upper-case letters or at an
\* upper-to-lower transition on account of letter case.
C24_CamelCutRule ==
    /\ last.op = "simple_split" =>
          /\ CutsIdentifier(last.value)
          /\ CutPoints(last.value) = DelimCuts \cup CamelCuts
    /\ last.op = "elementary_split" =>
          /\ CutsIdentifier(last.value)
          /\ CutPoints(last.value) = DelimCuts \cup CamelCuts \cup DigitCuts
    /\ (last.op = "heuristic_split"
           /\ (keep_numbers \/ \A j \in DOMAIN identifier : ~IsDigit(identifier[j]))) =>
          /\ CutsIdentifier(last.value)
          /\ CamelCuts \subseteq CutPoints(last.value)
          /\ CutPoints(last.value) \subseteq
                DelimCuts \cup CamelCuts \cup DigitCuts \cup ExceptionCuts

\* C24 witness: simple_split has returned two tokens for an identifier of
\* letters with a lower-to-upper transition, two adjacent upper-case letters
\* and an upper-to-lower transition.
C24_Witness ==
    /\ last.op = "simple_split"
    /\ \A j \in DOMAIN identifier : IsLower(identifier[j]) \/ IsUpper(identifier[j])
    /\ CamelCuts # {}
    /\ \E j \in 1..(Len(identifier) - 1) : IsUpper(identifier[j]) /\ IsUpper(identifier[j + 1])
    /\ \E j \in 1..(Len(identifier) - 1) : IsUpper(identifier[j]) /\ IsLower(identifier[j + 1])
    /\ Len(last.value) = 2

\* Places j and k of s are in the same delimiter-separated piece.
SamePiece(s, j, k) ==
    \A m \in (IF j <= k THEN j ELSE k)..(IF j <= k THEN k ELSE j) : s[m] \notin delimiter_chars

\* The piece of s that holds place j has two adjacent upper-case letters.
PieceHasTwoCapitals(s, j) ==
    \E k \in 1..(Len(s) - 1) :
        IsUpper(s[k]) /\ IsUpper(s[k + 1]) /\ SamePiece(s, j, k) /\ SamePiece(s, j, k + 1)

C26_DigitsAreDelimiters ==
    last.op \in {"simple_split", "safe_simple_split"} =>
        \A k \in DOMAIN last.value :
            \A j \in DOMAIN last.value[k] : ~IsDigit(last.value[k][j])

\* The entries of the rows that the filtering is said to keep: those with a
\* frequency of at least t and a word not in W.
KeptRows(rows, t, W) == SelectSeq(rows, LAMBDA row : row[2] >= t /\ row[1] \notin W)

\* The value returned holds the kept entries, each with its frequency, and
\* no other entry.
ReturnsKept(value, kept) ==
    /\ DOMAIN value = {kept[k][1] : k \in DOMAIN kept}
    /\ \A k \in DOMAIN kept :
          (\A j \in DOMAIN kept : kept[j][1] = kept[k][1] => j <= k)
              => value[kept[k][1]] = kept[k][2]

\* C27: frequencies_from_pickle returns the stored table without the
\* entries whose frequency is less than the threshold or whose key is in
\* filter_words, and with every other entry and its value, as
\* frequencies_from_csv_file does.
C27_PickleFiltering ==
    last.op = "frequencies_from_pickle" =>
        /\ ReturnsKept(last.value, KeptRows(last.rows, last.threshold, last.filter_words))
        /\ DOMAIN last.value
              = DOMAIN frequencies_from_csv_file(last.rows, last.threshold, last.filter_words)

\* What the loader of CSV files does, for comparison: it returns the kept
\* entries.
CsvFiltering ==
    last.op = "frequencies_from_csv_file" =>
        ReturnsKept(last.value, KeptRows(last.rows, last.threshold, last.filter_words))

\* C28: the splitter is uninitialized, so that split runs init first, or
\* fully initialized; an init call that raised leaves it uninitialized.
C28_TwoStates ==
    /\ split_needs_init(ronin) \/ Initialized(ronin)
    /\ (last.op = "init" /\ last.status # "ok") => split_needs_init(ronin)

\* What an init call with the arguments of last' overwrites besides the
\* score function: the case flag, the highest frequency, the biased
\* threshold and the numeric parameters.
OverwritesParams ==
    /\ ronin'.exact_case = last'.exact_case
    /\ ronin'.highest_freq = max_value(ronin.frequencies)
    /\ ronin'.biased_threshold
          = (last'.params.recognition_bias * max_value(ronin.frequencies)) \div BIAS_DIV
    /\ ParamsAre(ronin', last'.params)

\* The score function is the one init chooses for the case flag of last'.
OverwritesScore ==
    ronin'.score = IF last'.exact_case THEN "exact_case" ELSE "lowercase"

\* C29: an init call made while a non-empty table is stored leaves the
\* table as it is, whatever its 'frequencies' argument, and overwrites the
\* case flag, the highest frequency, the biased threshold, the numeric
\* parameters and the score function.
C29_LaterInit ==
    [][(InitStep /\ HasTable(ronin)) =>
          /\ ronin'.frequencies = ronin.frequencies
          /\ OverwritesParams
          /\ OverwritesScore]_vars

\* What holds of every later init call: the table stays and the parameters
\* are overwritten; the score function is overwritten when the call returns.
LaterInitThatReturns ==
    [][(InitStep /\ HasTable(ronin)) =>
          /\ ronin'.frequencies = ronin.frequencies
          /\ OverwritesParams
          /\ last'.status = "ok" => OverwritesScore
          /\ last'.status # "ok" => (~Initialized(ronin) /\ ronin'.score = ronin.score)]_vars

\* C30: with the data files in place, so that every init call succeeds,
\* after an init call the keys of the stored table are lower-case whenever
\* the case flag is false, and highest_freq is the maximum of the table.
C30_TableAgreesWithCasePolicy ==
    (/\ freq_artifact = "ok" /\ dict_artifact # "unavailable"
     /\ last.op = "init" /\ last.status = "ok") =>
        /\ ~ronin.exact_case => \A key \in DOMAIN ronin.frequencies : lower(key) = key
        /\ ronin.highest_freq = max_value(ronin.frequencies)

\* The part of C30 about highest_freq, which holds.
HighestFreqIsMax ==
    (last.op = "init" /\ last.status = "ok") =>
        ronin.highest_freq = max_value(ronin.frequencies)

====
